---- MODULE Spec2Model ----
(***************************************************************************)
(* State-machine model of api/submit.js: the request handler (method       *)
(* dispatch, required-field check, generatePDF, resend.emails.send, the    *)
(* responses) and generatePDF itself (the promise, the document stream's   *)
(* data/end/error events, the table loop with its page cursor).            *)
(*                                                                         *)
(* A JS string is a sequence of tokens; the token NL is the line break,    *)
(* every other token is a piece of text without a line break.  A JS value  *)
(* is a record [kind, s, n] (undefined, string or number).                 *)
(*                                                                         *)
(* The rendering engine (pdfkit) and the delivery channel (resend) are the *)
(* environment: the engine chooses the cursor it hands back after the      *)
(* preamble, the chunks it emits, and whether it raises an error; the      *)
(* channel chooses how the send call comes back.  Pages are the pages this *)
(* file asks for (the constructor's first page and every doc.addPage());   *)
(* pages the engine may add on its own while flowing text are not counted. *)
(***************************************************************************)
EXTENDS Integers, Sequences, FiniteSets, TLC

VARIABLES
    req,        \* the inbound request: [method, body]
    pc,         \* position of the handler / of the generatePDF executor
    response,   \* what res.status(..).json(..)/end() sent, or NoResponse
    promise,    \* the promise generatePDF returns
    stream,     \* the document stream: "none", "open", "ending", "ended"
    chunks,     \* const chunks = []
    emitted,    \* every chunk the engine emitted with a 'data' event, in order
    startY,     \* doc.y when the table starts (let y = doc.y)
    y,          \* the table loop's cursor
    pages,      \* pages asked for: 1 + number of doc.addPage() calls
    rowIdx,     \* index of the next row of rows.forEach
    drawn,      \* the rows drawn so far: [page, y, rh, value]
    docY,       \* doc.y as set by the closing block (0 before)
    errors,     \* errors raised while rendering, in order
    pdfBuffer,  \* const pdfBuffer (None before the await returns)
    sendCount,  \* number of resend.emails.send invocations
    sent,       \* the attachment content handed to the channel
    sendResult  \* how the send call came back: "none", "ok", "error", "threw"

vars == <<req, pc, response, promise, stream, chunks, emitted, startY, y,
          pages, rowIdx, drawn, docY, errors, pdfBuffer, sendCount, sent,
          sendResult>>

----------------------------------------------------------------------------
(* Program constants *)

rowHeight == 28
cellPad == 6
lineHeight == 14
pageBottom == 750
topMargin == 72
closingGap == 24

(* Bounds of the model *)

MaxLines == 50      \* lines of the longest value a request carries
MaxStartK == 2      \* the engine's start cursors: topMargin + k * 214, k <= MaxStartK
MaxChunks == 2      \* 'data' events per document

NL == "\n"

----------------------------------------------------------------------------
(* JS values *)

Undef == [kind |-> "undefined", s |-> <<>>, n |-> 0]
Str(s) == [kind |-> "string", s |-> s, n |-> 0]
Num(n) == [kind |-> "number", s |-> <<>>, n |-> n]

\* !v
Falsy(v) ==
    \/ v.kind = "undefined"
    \/ v.kind = "string" /\ v.s = <<>>
    \/ v.kind = "number" /\ v.n = 0

Digit(k) == <<"0", "1", "2", "3", "4", "5", "6", "7", "8", "9">>[k + 1]

RECURSIVE Digits(_)
Digits(n) == IF n < 10 THEN <<Digit(n)>> ELSE Digits(n \div 10) \o <<Digit(n % 10)>>

\* '' + v : string concatenation coerces its operand
ToStr(v) ==
    CASE v.kind = "undefined" -> <<"undefined">>
      [] v.kind = "string" -> v.s
      [] v.kind = "number" -> Digits(v.n)

\* Intl.NumberFormat('es-ES', two fraction digits): integers below 1000
fmt(v) ==
    IF v.kind = "number" THEN Digits(v.n) \o <<",", "0", "0">> ELSE <<"NaN">>

RECURSIVE Lines(_)
Lines(n) == IF n <= 1 THEN <<"a">> ELSE <<"a", NL>> \o Lines(n - 1)

----------------------------------------------------------------------------
(* The request *)

\* const required = [...]
required == <<"amount", "currency", "beneficiario", "dirBeneficiario",
              "bancoBeneficiario", "swiftBeneficiario", "ibanBeneficiario",
              "submitterName", "submitterEmail">>

\* the seven sub-fields of the 'Cuenta del beneficiario' cell, in order
compositeFields == <<"bancoIntermediario", "ciudadIntermediario",
                     "swiftIntermediario", "aba", "bancoBeneficiario",
                     "swiftBeneficiario", "ibanBeneficiario">>

compositeLabels == <<"Banco Intermediario: ", "Ciudad: ", "Swift Code: ",
                     "ABA: ", "Banco Beneficiario: ", "Swift code: ",
                     "Beneficiario Final: ">>

Range(f) == {f[i] : i \in 1..Len(f)}

Fields == Range(required) \cup Range(compositeFields) \cup {"dirBanco", "ref"}

\* a well-formed request body: every field a one-line string, the amount a number
DefaultBody == [f \in Fields |-> IF f = "amount" THEN Num(5) ELSE Str(<<"a">>)]

\* the other values a field of a body takes in the model: absent, empty,
\* and, where the field is drawn into the table, two lines or MaxLines lines
Alt(f) ==
    CASE f = "amount" -> {Undef, Num(0)}
      [] f \in {"submitterName", "submitterEmail", "ref"} -> {Undef, Str(<<>>)}
      [] f \in {"beneficiario", "aba"} ->
            {Undef, Str(<<>>), Str(Lines(2)), Str(Lines(MaxLines))}
      [] OTHER -> {Undef, Str(<<>>), Str(Lines(2))}

Vals(f) == Alt(f) \cup {DefaultBody[f]}

\* bodies: the well-formed body with up to two fields replaced
Bodies ==
    UNION {{[DefaultBody EXCEPT ![fg[1]] = v, ![fg[2]] = w] :
                v \in Vals(fg[1]), w \in Vals(fg[2])} : fg \in Fields \X Fields}

Requests ==
    {[method |-> "POST", body |-> b] : b \in Bodies}
      \cup {[method |-> m, body |-> DefaultBody] : m \in {"OPTIONS", "GET"}}

\* doc.y after the date line and the two boilerplate paragraphs: the engine's
StartYs == {topMargin + k * 214 : k \in 0..MaxStartK}

\* the chunks a 'data' event carries (byte sequences)
Chunks == {<<1>>, <<2, 3>>}

\* no byte sequence (bytes are positive)
None == <<-1>>

NoAttachment == [encoding |-> "none", of |-> None]

NoResponse == [status |-> 0, kind |-> "none", error |-> "", ref |-> Undef]

----------------------------------------------------------------------------
(* The required-field check (handler, for (const field of required)) *)

RECURSIVE FirstMissingFrom(_, _)
FirstMissingFrom(d, i) ==
    IF i > Len(required) THEN ""
    ELSE IF Falsy(d[required[i]]) THEN required[i]
    ELSE FirstMissingFrom(d, i + 1)

RECURSIVE FirstUndefinedFrom(_, _)
FirstUndefinedFrom(d, i) ==
    IF i > Len(required) THEN ""
    ELSE IF d[required[i]].kind = "undefined" THEN required[i]
    ELSE FirstUndefinedFrom(d, i + 1)

\* a check that only looks for absent keys (d[field] === undefined)
FirstMissingUndefinedOnly(d) == FirstUndefinedFrom(d, 1)

\* the name of the first required field that is falsy, "" when there is none
FirstMissing(d) == FirstMissingFrom(d, 1)

----------------------------------------------------------------------------
(* generatePDF: the rows *)

RECURSIVE JoinFrom(_, _)
\* the lines of a sequence of lines joined by NL, from line i on
JoinFrom(ls, i) ==
    IF i > Len(ls) THEN <<>>
    ELSE IF i = Len(ls) THEN ls[i]
    ELSE ls[i] \o <<NL>> \o JoinFrom(ls, i + 1)

\* a composite cell that leaves out the sub-fields that are empty
CompositeValueSkipEmpty(d) ==
    LET keep == SelectSeq(<<1, 2, 3, 4, 5, 6, 7>>,
                          LAMBDA i : ToStr(d[compositeFields[i]]) # <<>>)
        ls == [k \in 1..Len(keep) |->
                  <<compositeLabels[keep[k]]>> \o ToStr(d[compositeFields[keep[k]]])]
    IN  JoinFrom(ls, 1)

\* 'Banco Intermediario: ' + d.bancoIntermediario + '\n' + ... + d.ibanBeneficiario
CompositeValue(d) ==
    <<compositeLabels[1]>> \o ToStr(d.bancoIntermediario) \o <<NL>> \o
    <<compositeLabels[2]>> \o ToStr(d.ciudadIntermediario) \o <<NL>> \o
    <<compositeLabels[3]>> \o ToStr(d.swiftIntermediario) \o <<NL>> \o
    <<compositeLabels[4]>> \o ToStr(d.aba) \o <<NL>> \o
    <<compositeLabels[5]>> \o ToStr(d.bancoBeneficiario) \o <<NL>> \o
    <<compositeLabels[6]>> \o ToStr(d.swiftBeneficiario) \o <<NL>> \o
    <<compositeLabels[7]>> \o ToStr(d.ibanBeneficiario)

\* const rows = [...]: the value column, in order
rows(d) ==
    << Str(<<"Verdi Square Asset Management SL">>),
       Str(<<"ES63 0128 0892 5701 0005 3572">>),
       Str(fmt(d.amount) \o <<" ">> \o ToStr(d.currency)),
       d.beneficiario,
       Str(CompositeValue(d)),
       d.dirBeneficiario,
       d.dirBanco >>

\* index of the 'Cuenta del beneficiario' row
CompositeRow == 5

RECURSIVE split(_)
\* value.split('\n')
split(s) ==
    IF \A i \in 1..Len(s) : s[i] # NL THEN <<s>>
    ELSE LET i == CHOOSE k \in 1..Len(s) : s[k] = NL /\ \A j \in 1..(k - 1) : s[j] # NL
         IN  <<SubSeq(s, 1, i - 1)>> \o split(SubSeq(s, i + 1, Len(s)))

Max(a, b) == IF a >= b THEN a ELSE b

\* a row height without the Math.max against rowHeight
rhNoMinimum(lineCount) == cellPad * 2 + lineCount * lineHeight

\* const rh = Math.max(rowHeight, cellPad * 2 + lineCount * 14)
rh(lineCount) == Max(rowHeight, cellPad * 2 + lineCount * lineHeight)

\* an overflow check that forgets the height of the row about to be drawn
OverflowsCursorOnly(cursor, h) == cursor > pageBottom

\* if (y + rh > 750)
Overflows(cursor, h) == cursor + h > pageBottom

\* a cursor that always advances by the minimum row height
AdvanceFixed(cursor, h) == cursor + rowHeight

\* y += rh
Advance(cursor, h) == cursor + h

----------------------------------------------------------------------------
(* generatePDF: the promise and the chunk buffer *)

Pending == [state |-> "pending", value |-> None, reason |-> ""]
NoPromise == [state |-> "none", value |-> None, reason |-> ""]

\* a promise whose last settlement wins
SettleLastWins(p, state, value, reason) ==
    [state |-> state, value |-> value, reason |-> reason]

\* resolve(..)/reject(..): only the first settlement of a promise takes effect
Settle(p, state, value, reason) ==
    IF p.state = "pending"
    THEN [state |-> state, value |-> value, reason |-> reason]
    ELSE p

\* a buffer that puts each new chunk in front
pushFront(cs, c) == <<c>> \o cs

\* chunks.push(chunk)
push(cs, c) == Append(cs, c)

RECURSIVE concat(_)
\* Buffer.concat(chunks)
concat(cs) == IF cs = <<>> THEN <<>> ELSE Head(cs) \o concat(Tail(cs))

\* pdfBuffer.toString('base64'): an encoding of the bytes, not the bytes
base64(bytes) == [encoding |-> "base64", of |-> bytes]

----------------------------------------------------------------------------
(* The state after the request arrives *)

Init ==
    /\ req \in Requests
    /\ pc = "start"
    /\ response = NoResponse
    /\ promise = NoPromise
    /\ stream = "none"
    /\ chunks = <<>>
    /\ emitted = <<>>
    /\ startY = 0
    /\ y = 0
    /\ pages = 0
    /\ rowIdx = 0
    /\ drawn = <<>>
    /\ docY = 0
    /\ errors = <<>>
    /\ pdfBuffer = None
    /\ sendCount = 0
    /\ sent = NoAttachment
    /\ sendResult = "none"

renderVars == <<promise, stream, chunks, emitted, startY, y, pages, rowIdx,
                drawn, docY, errors>>
sendVars == <<pdfBuffer, sendCount, sent, sendResult>>

----------------------------------------------------------------------------
(* handler *)

\* if (req.method === 'OPTIONS') return res.status(200).end()
Options ==
    /\ pc = "start"
    /\ req.method = "OPTIONS"
    /\ response' = [status |-> 200, kind |-> "end", error |-> "", ref |-> Undef]
    /\ pc' = "done"
    /\ UNCHANGED <<req, renderVars, sendVars>>

\* if (req.method !== 'POST') return res.status(405).json(..)
MethodNotAllowed ==
    /\ pc = "start"
    /\ req.method \notin {"OPTIONS", "POST"}
    /\ response' = [status |-> 405, kind |-> "error",
                    error |-> "Method not allowed", ref |-> Undef]
    /\ pc' = "done"
    /\ UNCHANGED <<req, renderVars, sendVars>>

\* the required-field loop finds a falsy field: 400, nothing else happens
ValidateFails ==
    /\ pc = "start"
    /\ req.method = "POST"
    /\ FirstMissing(req.body) # ""
    /\ response' = [status |-> 400, kind |-> "missing",
                    error |-> FirstMissing(req.body), ref |-> Undef]
    /\ pc' = "done"
    /\ UNCHANGED <<req, renderVars, sendVars>>

\* the required-field loop passes: generatePDF(d) is called
ValidatePasses ==
    /\ pc = "start"
    /\ req.method = "POST"
    /\ FirstMissing(req.body) = ""
    /\ pc' = "generate"
    /\ UNCHANGED <<req, response, renderVars, sendVars>>

----------------------------------------------------------------------------
(* generatePDF: the executor *)

\* the promise is created, the document constructed (its first page), the
\* three listeners registered, the date and the boilerplate written, and
\* let y = doc.y
Construct ==
    /\ pc = "generate"
    /\ promise' = Pending
    /\ stream' = "open"
    /\ pages' = 1
    /\ \E y0 \in StartYs : startY' = y0 /\ y' = y0
    /\ rowIdx' = 1
    /\ pc' = "rows"
    /\ UNCHANGED <<req, response, chunks, emitted, drawn, docY, errors, sendVars>>

\* one iteration of rows.forEach on a string value
DrawRow ==
    /\ pc = "rows"
    /\ rowIdx <= Len(rows(req.body))
    /\ rows(req.body)[rowIdx].kind = "string"
    /\ LET value == rows(req.body)[rowIdx].s
           lineCount == Len(split(value))
           h == rh(lineCount)
           brk == Overflows(y, h)
           at == IF brk THEN topMargin ELSE y
           pg == IF brk THEN pages + 1 ELSE pages
       IN  /\ pages' = pg
           /\ drawn' = Append(drawn, [page |-> pg, y |-> at, rh |-> h, value |-> value])
           /\ y' = Advance(at, h)
    /\ rowIdx' = rowIdx + 1
    /\ pc' = IF rowIdx = Len(rows(req.body)) THEN "closing" ELSE "rows"
    /\ UNCHANGED <<req, response, promise, stream, chunks, emitted, startY,
                   docY, errors, sendVars>>

\* one iteration of rows.forEach on a value that is no string: value.split
\* throws, the executor ends and the promise is rejected
SplitThrows ==
    /\ pc = "rows"
    /\ rowIdx <= Len(rows(req.body))
    /\ rows(req.body)[rowIdx].kind # "string"
    /\ errors' = Append(errors, "TypeError")
    /\ promise' = Settle(promise, "rejected", None, "TypeError")
    /\ pc' = "await"
    /\ UNCHANGED <<req, response, stream, chunks, emitted, startY, y, pages,
                   rowIdx, drawn, docY, sendVars>>

\* a call into the engine throws during layout (followed when it is the
\* first error)
EngineThrows ==
    /\ pc \in {"rows", "closing"}
    /\ errors = <<>>
    /\ errors' = Append(errors, "EngineError")
    /\ promise' = Settle(promise, "rejected", None, "EngineError")
    /\ pc' = "await"
    /\ UNCHANGED <<req, response, stream, chunks, emitted, startY, y, pages,
                   rowIdx, drawn, docY, sendVars>>

\* doc.y = y + 24, the closing prose and the signature, doc.end(); the
\* executor returns and the handler awaits the promise
Closing ==
    /\ pc = "closing"
    /\ docY' = y + closingGap
    /\ stream' = "ending"
    /\ pc' = "await"
    /\ UNCHANGED <<req, response, promise, chunks, emitted, startY, y, pages,
                   rowIdx, drawn, errors, sendVars>>

----------------------------------------------------------------------------
(* generatePDF: the document stream's events.  Events that can no longer
   change anything the handler reads are not followed: any event once the
   handler has answered, a 'data' event once the promise is settled (the
   buffer is read by the 'end' listener's resolve only), and an 'error' event
   after the first error (reject has been called already). *)

\* doc.on('data', chunk => chunks.push(chunk))
OnData ==
    /\ pc # "done"
    /\ promise.state = "pending"
    /\ stream \in {"open", "ending"}
    /\ Len(emitted) < MaxChunks
    /\ \E c \in Chunks :
        /\ emitted' = Append(emitted, c)
        /\ chunks' = push(chunks, c)
    /\ UNCHANGED <<req, pc, response, promise, stream, startY, y, pages,
                   rowIdx, drawn, docY, errors, sendVars>>

\* doc.on('end', () => resolve(Buffer.concat(chunks)))
OnEnd ==
    /\ pc # "done"
    /\ stream = "ending"
    /\ stream' = "ended"
    /\ promise' = Settle(promise, "resolved", concat(chunks), "")
    /\ UNCHANGED <<req, pc, response, chunks, emitted, startY, y, pages,
                   rowIdx, drawn, docY, errors, sendVars>>

\* doc.on('error', reject): the stream reports an error, once
OnError ==
    /\ pc # "done"
    /\ stream \in {"open", "ending"}
    /\ errors = <<>>
    /\ errors' = Append(errors, "StreamError")
    /\ promise' = Settle(promise, "rejected", None, "StreamError")
    /\ UNCHANGED <<req, pc, response, stream, chunks, emitted, startY, y,
                   pages, rowIdx, drawn, docY, sendVars>>

----------------------------------------------------------------------------
(* handler, after the await *)

\* the promise is resolved: pdfBuffer, pdfBase64, resend.emails.send(..) called
AwaitResolved ==
    /\ pc = "await"
    /\ promise.state = "resolved"
    /\ pdfBuffer' = promise.value
    /\ sent' = base64(promise.value)
    /\ sendCount' = sendCount + 1
    /\ pc' = "awaitSend"
    /\ UNCHANGED <<req, response, renderVars, sendResult>>

\* the promise is rejected: catch (err), 500 with err.message
AwaitRejected ==
    /\ pc = "await"
    /\ promise.state = "rejected"
    /\ response' = [status |-> 500, kind |-> "error",
                    error |-> promise.reason, ref |-> Undef]
    /\ pc' = "done"
    /\ UNCHANGED <<req, renderVars, sendVars>>

\* a handler that sends again when the send call throws
SendThrowsRetry ==
    /\ pc = "awaitSend"
    /\ sendCount < 3
    /\ sendCount' = sendCount + 1
    /\ UNCHANGED <<req, pc, response, renderVars, pdfBuffer, sent, sendResult>>

\* the send call throws (its promise is rejected): catch (err), 500
SendThrows ==
    /\ pc = "awaitSend"
    /\ sendResult' = "threw"
    /\ response' = [status |-> 500, kind |-> "error",
                    error |-> "SendError", ref |-> Undef]
    /\ pc' = "done"
    /\ UNCHANGED <<req, renderVars, pdfBuffer, sendCount, sent>>

\* the send call returns; its result, { data, error }, is not looked at:
\* res.status(200).json({ success: true, ref: d.ref })
SendReturns ==
    /\ pc = "awaitSend"
    /\ \E r \in {"ok", "error"} : sendResult' = r
    /\ response' = [status |-> 200, kind |-> "success", error |-> "",
                    ref |-> req.body.ref]
    /\ pc' = "done"
    /\ UNCHANGED <<req, renderVars, pdfBuffer, sendCount, sent>>

----------------------------------------------------------------------------

Next ==
    \/ Options
    \/ MethodNotAllowed
    \/ ValidateFails
    \/ ValidatePasses
    \/ Construct
    \/ DrawRow
    \/ SplitThrows
    \/ EngineThrows
    \/ Closing
    \/ OnData
    \/ OnEnd
    \/ OnError
    \/ AwaitResolved
    \/ AwaitRejected
    \/ SendThrows
    \/ SendReturns

Spec == Init /\ [][Next]_vars

----------------------------------------------------------------------------
(* Properties *)

NewlineCount(s) == Cardinality({i \in 1..Len(s) : s[i] = NL})

RECURSIVE SumRhTo(_)
\* the heights of the first n rows drawn, added up
SumRhTo(n) == IF n = 0 THEN 0 ELSE SumRhTo(n - 1) + drawn[n].rh

TableDone == Len(drawn) = 7 /\ rowIdx = 8

ContentHeight == startY + SumRhTo(Len(drawn))

\* the keys of the request that generatePDF draws into the table
TableKeys ==
    {"amount", "currency", "beneficiario", "dirBeneficiario", "dirBanco"}
        \cup Range(compositeFields)

\* every field drawn into the table is a value without a line break
SingleLineFields ==
    \A f \in TableKeys : NewlineCount(ToStr(req.body[f])) = 0

C2_RowHeight ==
    /\ \A i \in 1..Len(drawn) :
        /\ drawn[i].rh = Max(28, 2 * 6 + 14 * (NewlineCount(drawn[i].value) + 1))
        /\ drawn[i].rh >= 28
    /\ \A i, j \in 1..Len(drawn) :
        NewlineCount(drawn[i].value) <= NewlineCount(drawn[j].value)
            => drawn[i].rh <= drawn[j].rh

C2_Witness ==
    \E i, j \in 1..Len(drawn) :
        /\ NewlineCount(drawn[i].value) = 0 /\ drawn[i].rh = 28
        /\ NewlineCount(drawn[j].value) = 1 /\ drawn[j].rh = 40

\* the seven lines the 'Cuenta del beneficiario' cell is to show
ExpectedCompositeLines ==
    [i \in 1..7 |-> <<compositeLabels[i]>> \o ToStr(req.body[compositeFields[i]])]

CompositeIsSevenLines ==
    /\ split(drawn[CompositeRow].value) = ExpectedCompositeLines
    /\ Len(split(drawn[CompositeRow].value)) = 7
    /\ drawn[CompositeRow].rh = 110

NoBreakInSubFields ==
    \A i \in 1..7 : NewlineCount(ToStr(req.body[compositeFields[i]])) = 0

\* C3 as stated: the 'Cuenta del beneficiario' value always is exactly seven
\* lines, one per sub-field in the fixed order, and its row is 110 high.
C3_AlwaysSevenLines ==
    Len(drawn) >= CompositeRow => CompositeIsSevenLines

\* C3, amended: when no sub-field contains a line break, the 'Cuenta del
\* beneficiario' value is exactly seven lines, one per sub-field in the fixed
\* order, whichever sub-fields are empty, and its row is 110 high.
C3_SevenLinesWithoutBreaks ==
    (Len(drawn) >= CompositeRow /\ NoBreakInSubFields) => CompositeIsSevenLines

C3_Witness ==
    /\ Len(drawn) >= CompositeRow
    /\ NoBreakInSubFields
    /\ \E i, j \in 1..7 :
        /\ i # j
        /\ req.body[compositeFields[i]] = Str(<<>>)
        /\ req.body[compositeFields[j]] = Str(<<>>)
    /\ CompositeIsSevenLines

FalsyRequired == {i \in 1..Len(required) : Falsy(req.body[required[i]])}

C5_TableKeysPresent ==
    (pc = "generate" \/ promise.state # "none") =>
        \A f \in TableKeys : req.body[f].kind # "undefined"

\* C6: when the channel reports a failure after generatePDF succeeded, the
\* answer is the 500 failure and never the success acknowledgment; no answer
\* carries the rendered bytes (an answer carries a message or the ref only).
C6_SendFailureIsFailure ==
    /\ (pc = "done" /\ sendResult \in {"error", "threw"}) =>
        /\ response.status = 500
        /\ response.kind = "error"
    /\ response.ref \in {Undef, req.body.ref}
    /\ response.kind \in {"none", "end", "error", "missing", "success"}

\* C7: once an error is raised while rendering, generatePDF fails with that
\* error: the promise is rejected with the first error and never carries
\* bytes, no bytes reach the handler, nothing is sent, and the answer is 500
\* with the error's message.
C7_RenderErrorFails ==
    errors # <<>> =>
        /\ promise.state = "rejected"
        /\ promise.reason = errors[1]
        /\ promise.value = None
        /\ pdfBuffer = None
        /\ sendCount = 0
        /\ pc = "done" =>
            /\ response.status = 500
            /\ response.kind = "error"
            /\ response.error = errors[1]

C7_Witness ==
    /\ errors = <<"StreamError">>
    /\ stream = "ended"
    /\ emitted # <<>>
    /\ pc = "done"
    /\ response.status = 500

\* C8: the send is invoked at most once, and only for a request whose
\* required fields are all there and whose generatePDF promise is resolved;
\* after a failed validation or rendering nothing is sent; the success
\* acknowledgment is 200 with the request's ref and comes only after the one
\* send call has returned.
C8_SendOnceAfterRender ==
    /\ sendCount <= 1
    /\ sendCount >= 1 =>
        /\ FalsyRequired = {}
        /\ promise.state = "resolved"
        /\ errors = <<>>
        /\ sent = base64(pdfBuffer)
    /\ (response.status = 400 \/ errors # <<>>) => sendCount = 0
    /\ response.kind = "success" =>
        /\ response.status = 200
        /\ response.ref = req.body.ref
        /\ sendCount = 1
        /\ sendResult \in {"ok", "error"}

C8_Witness ==
    /\ response.kind = "success"
    /\ sendCount = 1
    /\ sendResult = "ok"

\* C9: rows are drawn in order; a row is drawn on a new page at 72 exactly
\* when cursor + height > 750, otherwise on the same page at the cursor;
\* the cursor then is the row's bottom edge.  So a row's bottom edge is at
\* most 750 unless the row is the first of a fresh page, at 72, and rows
\* that follow each other on a page touch without overlapping.
C9_RowPlacement ==
    /\ \A i \in 1..Len(drawn) :
        LET before == IF i = 1 THEN startY ELSE drawn[i - 1].y + drawn[i - 1].rh
            pageBefore == IF i = 1 THEN 1 ELSE drawn[i - 1].page
        IN  /\ before + drawn[i].rh > 750 =>
                drawn[i].page = pageBefore + 1 /\ drawn[i].y = 72
            /\ before + drawn[i].rh <= 750 =>
                drawn[i].page = pageBefore /\ drawn[i].y = before
            /\ \/ drawn[i].y + drawn[i].rh <= 750
               \/ drawn[i].y = 72 /\ drawn[i].page = pageBefore + 1
    /\ drawn # <<>> /\ pc \in {"rows", "closing"} =>
        /\ y = drawn[Len(drawn)].y + drawn[Len(drawn)].rh
        /\ pages = drawn[Len(drawn)].page

C9_Witness ==
    /\ TableDone
    /\ \E i \in 1..Len(drawn) :
        /\ drawn[i].page >= 2
        /\ drawn[i].y = 72
        /\ drawn[i].y + drawn[i].rh > 750
    /\ \E j \in 1..(Len(drawn) - 1) :
        /\ drawn[j].page >= 2
        /\ drawn[j].y = 72
        /\ drawn[j].y + drawn[j].rh <= 750
        /\ drawn[j + 1].page = drawn[j].page
        /\ drawn[j + 1].y = drawn[j].y + drawn[j].rh

RECURSIVE FlattenTo(_, _)
\* the first n chunks of cs, one after the other
FlattenTo(cs, n) == IF n = 0 THEN <<>> ELSE FlattenTo(cs, n - 1) \o cs[n]

\* C10: the promise is resolved only once the stream's 'end' event has
\* fired, with the chunks of all 'data' events in emission order; the
\* handler holds no bytes before that, and the buffer holds every chunk
\* emitted so far.
C10_ResolvedAtEnd ==
    /\ promise.state = "resolved" =>
        /\ stream = "ended"
        /\ promise.value = FlattenTo(emitted, Len(emitted))
    /\ pdfBuffer # None =>
        /\ stream = "ended"
        /\ pdfBuffer = FlattenTo(emitted, Len(emitted))
    /\ stream # "ended" => promise.state # "resolved"
    /\ chunks = emitted

C10_Witness ==
    /\ promise.state = "resolved"
    /\ Len(emitted) >= 2
    /\ emitted[1] # emitted[2]
    /\ pdfBuffer = emitted[1] \o emitted[2]

====
